---- MODULE Spec2Model ----
(***************************************************************************)
(* A model of src/main.py: the N-body simulation "Mostest Closest          *)
(* Neighbour" (a star, four planets, a tally of Earth's nearest planet).   *)
(*                                                                         *)
(* Numbers.  The program computes in Python floats.  The model puts the    *)
(* dynamic quantities (positions, velocities, forces) on an integer grid:  *)
(* sums and products of grid values are exact, as they are for integral    *)
(* doubles, and every operation whose real result is off the grid (a       *)
(* division, the product with a cosine) rounds to the nearest grid value.  *)
(* A distance is kept exactly, as the real number whose square is the      *)
(* integer .sq, so comparisons of distances, distance**2 and int(distance  *)
(* * SCALE) are computed without rounding.  An angle is kept exactly, as   *)
(* the ray atan2 was given; cos and sin of it carry, besides the exact     *)
(* real value, the residual the double nearest to pi (pi/2) leaves: in     *)
(* IEEE doubles cos(pi/2) = 6.1e-17 =: eps and sin(pi) = 1.2e-16 = 2 eps,  *)
(* not 0.                                                                  *)
(*                                                                         *)
(* Units.  Lengths are in units of AU/400, masses and G are rescaled with  *)
(* them, so that the bodies of a small grid attract each other with forces *)
(* of a few grid units.                                                    *)
(***************************************************************************)
EXTENDS Integers, Sequences, FiniteSets, TLC

VARIABLES
    pos,                 \* body -> <<x, y>>                (self.x, self.y)
    vel,                 \* body -> <<x_vel, y_vel>>
    orbit,               \* planet -> sequence of <<x, y>>  (Planet.orbit)
    distance_to_parent,  \* planet -> distance              (Planet.distance_to_parent)
    error,               \* the exception that ended the program, or "none"
    planets,             \* run_simulation: the list `planets`
    pc,                  \* run_simulation: the place in the loop
    run,                 \* run_simulation: the flag `run`
    count,               \* run_simulation: `count`
    closest_count,       \* run_simulation: the dict `closest_count`
    closest_planet,      \* run_simulation: `closest_planet` of the last tally
    ticks,               \* calls of clock.tick so far (loop bodies begun)
    updates,             \* calls of solar_system.update_positions that returned
    frames,              \* calls of pygame.display.update so far
    quit_tick,           \* the tick in which a QUIT event was polled, 0 if none was
    arg,                 \* function-level calls: the list handed to the function
    calls,               \* function-level calls: calls of update_position made
    ret,                 \* function-level calls: what the last pure call returned
    init0                \* function-level calls: Earth's state before the first call

vars == <<pos, vel, orbit, distance_to_parent, error, planets, pc, run, count,
          closest_count, closest_planet, ticks, updates, frames, quit_tick,
          arg, calls, ret, init0>>

bodyVars == <<pos, vel, orbit, distance_to_parent, error>>
driverVars == <<planets, pc, run, count, closest_count, closest_planet,
                ticks, updates, frames, quit_tick>>
callVars == <<arg, calls, ret, init0>>

----------------------------------------------------------------------------
(* Constants of the program, in model units *)

AU == 400
G == 2
ScalePixels == 200
TIME_STEP == 2

(* Bounds of the model *)

MaxCoord == 1
MaxCalls == 2
MaxGap == 3
MaxTicks == 3

None == "None"
Bodies == {"Sun", "Mercury", "Venus", "Earth", "Mars"}
Planets == {"Mercury", "Venus", "Earth", "Mars"}

\* The masses of run_simulation's bodies, rescaled (Sun heaviest, then Earth
\* and Venus, then Mars and Mercury).
mass(b) == CASE b = "Sun" -> 8
             [] b = "Earth" -> 2
             [] b = "Venus" -> 2
             [] OTHER -> 1

parent_star(p) == "Sun"

----------------------------------------------------------------------------
(* Arithmetic *)

Abs(n) == IF n < 0 THEN -n ELSE n
Sign(n) == IF n < 0 THEN -1 ELSE IF n > 0 THEN 1 ELSE 0

RECURSIVE GCD(_, _)
GCD(a, b) == IF b = 0 THEN a ELSE GCD(b, a % b)

\* n / d for d > 0, rounded to the nearest grid value (halves away from zero).
RoundDiv(n, d) == Sign(n) * ((2 * Abs(n) + d) \div (2 * d))

\* SCALE = 200 / AU, as a fraction in lowest terms.
SCALE == [num |-> ScalePixels \div GCD(ScalePixels, AU),
          den |-> AU \div GCD(ScalePixels, AU)]

\* math.dist(p, q): the real number whose square is .sq.
dist(p, q) == [sq |-> (q[1] - p[1]) * (q[1] - p[1]) + (q[2] - p[2]) * (q[2] - p[2])]

\* math.inf
inf == [sq |-> -1]

\* a < b for two distances, b possibly math.inf
DistLess(a, b) == a # inf /\ (b = inf \/ a.sq < b.sq)

\* int(d * s) for a distance d and a fraction s: floor(sqrt(d.sq) * s.num / s.den)
IntOfScaled(d, s) ==
    CHOOSE t \in 0 .. (d.sq * s.num) :
        /\ t * t * s.den * s.den <= d.sq * s.num * s.num
        /\ (t + 1) * (t + 1) * s.den * s.den > d.sq * s.num * s.num

\* math.atan2(y, x): the angle of the ray through (x, y), kept exactly.
atan2(y, x) == [x |-> x, y |-> y]

\* math.cos(theta): the real x / sqrt(x^2 + y^2), plus e * eps; the doubles
\* nearest to pi/2 and -pi/2 have cosine eps, not 0.
cos(theta) == [num |-> theta.x,
               sq |-> theta.x * theta.x + theta.y * theta.y,
               e |-> IF theta.x = 0 THEN 1 ELSE 0]

\* math.sin(theta): the real y / sqrt(x^2 + y^2), plus e * eps; the double
\* nearest to pi has sine 2 eps, not 0.
sin(theta) == [num |-> theta.y,
               sq |-> theta.x * theta.x + theta.y * theta.y,
               e |-> IF theta.y = 0 /\ theta.x < 0 THEN 2 ELSE 0]

\* |num| * f / sqrt(sq) for f >= 0, rounded to the nearest grid value.
RoundRoot(f, num, sq) ==
    CHOOSE c \in 0 .. f :
        /\ c = 0 \/ (2 * c - 1) * (2 * c - 1) * sq <= 4 * f * f * num * num
        /\ (2 * c + 1) * (2 * c + 1) * sq > 4 * f * f * num * num

\* c * f for a cosine or sine c and a grid value f >= 0: the grid value .v (the
\* rounded product of f with c's real value) plus .e * eps (f times c's residual).
Times(c, f) == [v |-> Sign(c.num) * RoundRoot(f, c.num, c.sq), e |-> c.e * f]

\* Python's seq[start:]
SliceFrom(seq, start) ==
    LET n == Len(seq)
        s0 == IF start < 0 THEN start + n ELSE start
        s == IF s0 < 0 THEN 0 ELSE IF s0 > n THEN n ELSE s0
    IN  SubSeq(seq, s + 1, n)

----------------------------------------------------------------------------
(* CelestialObject and Planet.  S is the state of the bodies: a record with *)
(* the fields pos, vel, orbit, distance_to_parent and error.                *)

Cur == [pos |-> pos, vel |-> vel, orbit |-> orbit,
        distance_to_parent |-> distance_to_parent, error |-> error]

\* Mutant: the distance vector taken from the other body to self.
calculate_distance_vectors_reversed(self, other_body, S) ==
    <<S.pos[self][1] - S.pos[other_body][1], S.pos[self][2] - S.pos[other_body][2]>>

calculate_distance_vectors(self, other_body, S) ==
    <<S.pos[other_body][1] - S.pos[self][1], S.pos[other_body][2] - S.pos[self][2]>>

\* Returns [err, x, y]: err is "ZeroDivisionError" when distance**2 is 0.0.
calculate_force_vectors(self, other_body, S) ==
    LET d == calculate_distance_vectors(self, other_body, S)
        distance == dist(S.pos[self], S.pos[other_body])
    IN  IF distance.sq = 0
        THEN [err |-> "ZeroDivisionError"]
        ELSE LET force == RoundDiv(G * mass(self) * mass(other_body), distance.sq)
                 theta == atan2(d[2], d[1])
             IN  [err |-> "none",
                  x |-> Times(cos(theta), force),
                  y |-> Times(sin(theta), force)]

\* Mutant: the loop without `if self == body: continue`.
RECURSIVE SumForcesNoSkip(_, _, _, _)
SumForcesNoSkip(self, bodies, i, S) ==
    IF i > Len(bodies) THEN [err |-> "none", fx |-> 0, fy |-> 0]
    ELSE LET f == calculate_force_vectors(self, bodies[i], S)
         IN  IF f.err # "none" THEN [err |-> f.err, fx |-> 0, fy |-> 0]
             ELSE LET rest == SumForcesNoSkip(self, bodies, i + 1, S)
                  IN  [err |-> rest.err, fx |-> f.x.v + rest.fx, fy |-> f.y.v + rest.fy]

\* Mutant: self is recognised by value (same mass, position and velocity), not
\* by identity.
RECURSIVE SumForcesByValue(_, _, _, _)
SumForcesByValue(self, bodies, i, S) ==
    IF i > Len(bodies) THEN [err |-> "none", fx |-> 0, fy |-> 0]
    ELSE IF /\ mass(bodies[i]) = mass(self)
            /\ S.pos[bodies[i]] = S.pos[self]
            /\ S.vel[bodies[i]] = S.vel[self]
    THEN SumForcesByValue(self, bodies, i + 1, S)
    ELSE LET f == calculate_force_vectors(self, bodies[i], S)
         IN  IF f.err # "none" THEN [err |-> f.err, fx |-> 0, fy |-> 0]
             ELSE LET rest == SumForcesByValue(self, bodies, i + 1, S)
                  IN  [err |-> rest.err, fx |-> f.x.v + rest.fx, fy |-> f.y.v + rest.fy]

\* The loop of update_position from index i on: [err, fx, fy], the sums on the
\* grid (a residual of some eps is below the grid's resolution).
RECURSIVE SumForces(_, _, _, _)
SumForces(self, bodies, i, S) ==
    IF i > Len(bodies) THEN [err |-> "none", fx |-> 0, fy |-> 0]
    ELSE IF bodies[i] = self THEN SumForces(self, bodies, i + 1, S)
    ELSE LET f == calculate_force_vectors(self, bodies[i], S)
         IN  IF f.err # "none" THEN [err |-> f.err, fx |-> 0, fy |-> 0]
             ELSE LET rest == SumForces(self, bodies, i + 1, S)
                  IN  [err |-> rest.err, fx |-> f.x.v + rest.fx, fy |-> f.y.v + rest.fy]

\* Mutant: explicit Euler, the position advanced with the old velocity.
IntegrateExplicit(self, total, S) ==
    LET x_vel == S.vel[self][1] + RoundDiv(total.fx, mass(self)) * TIME_STEP
        y_vel == S.vel[self][2] + RoundDiv(total.fy, mass(self)) * TIME_STEP
    IN  [S EXCEPT !.vel[self] = <<x_vel, y_vel>>,
                  !.pos[self] = <<S.pos[self][1] + S.vel[self][1] * TIME_STEP,
                                  S.pos[self][2] + S.vel[self][2] * TIME_STEP>>]

\* The velocity and position update of update_position, lines 82-86.
Integrate(self, total, S) ==
    LET x_vel == S.vel[self][1] + RoundDiv(total.fx, mass(self)) * TIME_STEP
        y_vel == S.vel[self][2] + RoundDiv(total.fy, mass(self)) * TIME_STEP
    IN  [S EXCEPT !.vel[self] = <<x_vel, y_vel>>,
                  !.pos[self] = <<S.pos[self][1] + x_vel * TIME_STEP,
                                  S.pos[self][2] + y_vel * TIME_STEP>>]

CelestialObject_update_position(self, bodies, S) ==
    LET total == SumForces(self, bodies, 1, S)
    IN  IF total.err # "none" THEN [S EXCEPT !.error = total.err]
        ELSE Integrate(self, total, S)

Planet_update_position(self, bodies, S) ==
    LET T == CelestialObject_update_position(self, bodies, S)
    IN  IF T.error # "none" THEN T
        ELSE LET d == dist(T.pos[self], T.pos[parent_star(self)])
                 appended == Append(T.orbit[self], T.pos[self])
                 tail_length == IntOfScaled(d, SCALE)
             IN  [T EXCEPT !.distance_to_parent[self] = d,
                           !.orbit[self] = IF Len(appended) > tail_length
                                           THEN SliceFrom(appended, -tail_length)
                                           ELSE appended]

----------------------------------------------------------------------------
(* mostest_closest_neighbour *)

RECURSIVE NeighbourLoop(_, _, _, _, _, _)
NeighbourLoop(planet, other_planets, i, closest_neighbour, closest_distance, S) ==
    IF i > Len(other_planets) THEN closest_neighbour
    ELSE IF other_planets[i] = planet
    THEN NeighbourLoop(planet, other_planets, i + 1, closest_neighbour, closest_distance, S)
    ELSE LET distance == dist(S.pos[planet], S.pos[other_planets[i]])
         IN  IF DistLess(distance, closest_distance)
             THEN NeighbourLoop(planet, other_planets, i + 1, other_planets[i], distance, S)
             ELSE NeighbourLoop(planet, other_planets, i + 1,
                                closest_neighbour, closest_distance, S)

\* Mutant: the loop without `if other_planet == planet: continue`.
RECURSIVE NeighbourLoopNoSkip(_, _, _, _, _, _)
NeighbourLoopNoSkip(planet, other_planets, i, closest_neighbour, closest_distance, S) ==
    IF i > Len(other_planets) THEN closest_neighbour
    ELSE LET distance == dist(S.pos[planet], S.pos[other_planets[i]])
         IN  IF DistLess(distance, closest_distance)
             THEN NeighbourLoopNoSkip(planet, other_planets, i + 1, other_planets[i],
                                      distance, S)
             ELSE NeighbourLoopNoSkip(planet, other_planets, i + 1,
                                      closest_neighbour, closest_distance, S)

mostest_closest_neighbour_NoSkip(planet, other_planets, S) ==
    NeighbourLoopNoSkip(planet, other_planets, 1, None, inf, S)

\* Mutant: `distance <= closest_distance`, so that the last of a tie wins.
RECURSIVE NeighbourLoopLastWins(_, _, _, _, _, _)
NeighbourLoopLastWins(planet, other_planets, i, closest_neighbour, closest_distance, S) ==
    IF i > Len(other_planets) THEN closest_neighbour
    ELSE IF other_planets[i] = planet
    THEN NeighbourLoopLastWins(planet, other_planets, i + 1, closest_neighbour,
                               closest_distance, S)
    ELSE LET distance == dist(S.pos[planet], S.pos[other_planets[i]])
         IN  IF ~DistLess(closest_distance, distance)
             THEN NeighbourLoopLastWins(planet, other_planets, i + 1, other_planets[i],
                                        distance, S)
             ELSE NeighbourLoopLastWins(planet, other_planets, i + 1,
                                        closest_neighbour, closest_distance, S)

mostest_closest_neighbour_LastWins(planet, other_planets, S) ==
    NeighbourLoopLastWins(planet, other_planets, 1, None, inf, S)

mostest_closest_neighbour(planet, other_planets, S) ==
    NeighbourLoop(planet, other_planets, 1, None, inf, S)

Install(T) ==
    /\ pos' = T.pos
    /\ vel' = T.vel
    /\ orbit' = T.orbit
    /\ distance_to_parent' = T.distance_to_parent
    /\ error' = T.error

----------------------------------------------------------------------------
(* SolarSystem *)

RECURSIVE PlanetLoop(_, _, _, _)
PlanetLoop(planetList, bodies, i, S) ==
    IF i > Len(planetList) \/ S.error # "none" THEN S
    ELSE PlanetLoop(planetList, bodies, i + 1,
                    Planet_update_position(planetList[i], bodies, S))

\* Mutant: every planet is stepped from the positions the star's step left
\* (S0), not from those the planets before it have moved to.
RECURSIVE PlanetLoopJacobi(_, _, _, _, _)
PlanetLoopJacobi(planetList, bodies, i, S0, S) ==
    IF i > Len(planetList) \/ S.error # "none" THEN S
    ELSE LET p == planetList[i]
             T == Planet_update_position(p, bodies, [S0 EXCEPT !.orbit = S.orbit])
         IN  PlanetLoopJacobi(planetList, bodies, i + 1, S0,
                 [S EXCEPT !.pos[p] = T.pos[p], !.vel[p] = T.vel[p],
                           !.orbit[p] = T.orbit[p],
                           !.distance_to_parent[p] = T.distance_to_parent[p],
                           !.error = T.error])

SolarSystem_update_positions_Jacobi(star, planetList, S) ==
    LET S1 == CelestialObject_update_position(star, planetList, S)
    IN  PlanetLoopJacobi(planetList, <<star>> \o planetList, 1, S1, S1)

SolarSystem_update_positions(star, planetList, S) ==
    LET S1 == CelestialObject_update_position(star, planetList, S)
    IN  PlanetLoop(planetList, <<star>> \o planetList, 1, S1)

----------------------------------------------------------------------------
(* run_simulation *)

Range(seq) == {seq[i] : i \in 1 .. Len(seq)}

\* The bodies as run_simulation builds them: the Sun at the origin, Mercury and
\* Earth on the positive x axis, Venus and Mars on the negative one, Earth
\* beyond Mercury and Mars beyond Venus, the velocities along y; the distances
\* vary over the grid.
Gaps == 1 .. MaxGap
ShippedPlanets == <<"Mercury", "Venus", "Earth", "Mars">>

InitBodies ==
    /\ pos \in {[b \in Bodies |-> CASE b = "Sun" -> <<0, 0>>
                                    [] b = "Mercury" -> <<m, 0>>
                                    [] b = "Venus" -> <<-v, 0>>
                                    [] b = "Earth" -> <<m + e, 0>>
                                    [] b = "Mars" -> <<-(v + a), 0>>] :
                    m \in Gaps, v \in Gaps, e \in Gaps, a \in Gaps}
    /\ vel = [b \in Bodies |-> CASE b = "Sun" -> <<0, 0>>
                                [] b = "Mercury" -> <<0, 2>>
                                [] b = "Venus" -> <<0, -2>>
                                [] b = "Earth" -> <<0, 1>>
                                [] b = "Mars" -> <<0, -1>>]
    /\ orbit = [p \in Planets |-> << >>]
    /\ distance_to_parent = [p \in Planets |-> dist(<<0, 0>>, <<0, 0>>)]
    /\ error = "none"

InitDriver ==
    /\ pc = "loop"
    /\ run = TRUE
    /\ count = 0
    /\ closest_count = [p \in Range(planets) \ {"Earth"} |-> 0]
    /\ closest_planet = None
    /\ ticks = 0
    /\ updates = 0
    /\ frames = 0
    /\ quit_tick = 0

CallsIdle ==
    /\ arg = << >>
    /\ calls = 0
    /\ ret = [op |-> "none"]
    /\ init0 = [pos |-> <<0, 0>>, vel |-> <<0, 0>>]

Init ==
    /\ InitBodies
    /\ planets = ShippedPlanets
    /\ InitDriver
    /\ CallsIdle

\* `while run:` and, when it holds, clock.tick and window.fill; pygame.quit when
\* it does not.
LoopTest ==
    /\ pc = "loop"
    /\ run => ticks < MaxTicks
    /\ pc' = IF run THEN "events" ELSE "stopped"
    /\ ticks' = IF run THEN ticks + 1 ELSE ticks
    /\ UNCHANGED <<planets, run, count, closest_count, closest_planet, updates,
                   frames, quit_tick>>
    /\ UNCHANGED bodyVars
    /\ UNCHANGED callVars

\* Mutant: a QUIT event ends the loop at once (a `break`).
PollEventsBreak ==
    /\ pc = "events"
    /\ \E quit \in BOOLEAN :
           /\ run' = IF quit THEN FALSE ELSE run
           /\ quit_tick' = IF quit THEN ticks ELSE quit_tick
           /\ pc' = IF quit THEN "stopped" ELSE "update"
    /\ UNCHANGED <<planets, count, closest_count, closest_planet, ticks, updates, frames>>
    /\ UNCHANGED bodyVars
    /\ UNCHANGED callVars

\* The loop over pygame.event.get(): quit says whether a QUIT event is among them.
PollEvents ==
    /\ pc = "events"
    /\ \E quit \in BOOLEAN :
           /\ run' = IF quit THEN FALSE ELSE run
           /\ quit_tick' = IF quit THEN ticks ELSE quit_tick
    /\ pc' = "update"
    /\ UNCHANGED <<planets, count, closest_count, closest_planet, ticks, updates, frames>>
    /\ UNCHANGED bodyVars
    /\ UNCHANGED callVars

\* solar_system.update_positions()
UpdatePositions ==
    /\ pc = "update"
    /\ LET T == SolarSystem_update_positions("Sun", planets, Cur)
       IN  /\ Install(T)
           /\ pc' = IF T.error = "none" THEN "tally" ELSE "crashed"
           /\ updates' = IF T.error = "none" THEN updates + 1 ELSE updates
    /\ UNCHANGED <<planets, run, count, closest_count, closest_planet, ticks,
                   frames, quit_tick>>
    /\ UNCHANGED callVars

\* count += 1, the lookup and closest_count[closest_planet] += 1, which raises
\* KeyError for a key the dict does not hold.
Tally ==
    /\ pc = "tally"
    /\ count' = count + 1
    /\ LET found == mostest_closest_neighbour("Earth", planets, Cur)
       IN  /\ closest_planet' = found
           /\ IF found \in DOMAIN closest_count
              THEN /\ closest_count' = [closest_count EXCEPT ![found] = @ + 1]
                   /\ pc' = "render"
                   /\ error' = error
              ELSE /\ closest_count' = closest_count
                   /\ pc' = "crashed"
                   /\ error' = "KeyError"
    /\ UNCHANGED <<pos, vel, orbit, distance_to_parent>>
    /\ UNCHANGED <<planets, run, ticks, updates, frames, quit_tick>>
    /\ UNCHANGED callVars

\* The three format_percentage labels (KeyError for a planet closest_count does
\* not hold), draw_line (AttributeError on None), solar_system.draw and
\* pygame.display.update.
Render ==
    /\ pc = "render"
    /\ IF ~({"Mercury", "Venus", "Mars"} \subseteq DOMAIN closest_count)
       THEN error' = "KeyError" /\ pc' = "crashed" /\ frames' = frames
       ELSE IF closest_planet = None
       THEN error' = "AttributeError" /\ pc' = "crashed" /\ frames' = frames
       ELSE error' = error /\ pc' = "loop" /\ frames' = frames + 1
    /\ UNCHANGED <<pos, vel, orbit, distance_to_parent>>
    /\ UNCHANGED <<planets, run, count, closest_count, closest_planet, ticks,
                   updates, quit_tick>>
    /\ UNCHANGED callVars

Next == LoopTest \/ PollEvents \/ UpdatePositions \/ Tally \/ Render

Spec == Init /\ [][Next]_vars

\* run_simulation with its list of planets as a parameter: any sublist of the
\* shipped one that holds Earth.
Scenarios == {<<"Earth">>, <<"Venus", "Earth">>, <<"Earth", "Mars">>,
              <<"Mercury", "Earth">>, <<"Mercury", "Venus", "Earth">>,
              <<"Venus", "Earth", "Mars">>, <<"Mercury", "Earth", "Mars">>,
              ShippedPlanets}

InitScenario ==
    /\ InitBodies
    /\ planets \in Scenarios
    /\ InitDriver
    /\ CallsIdle

SpecScenario == InitScenario /\ [][Next]_vars

----------------------------------------------------------------------------
(* Function-level calls: Earth, a Planet whose parent is the Sun, is stepped *)
(* by update_position with the list arg; mostest_closest_neighbour is asked  *)
(* for Earth's neighbour in arg; calculate_force_vectors is called on a pair *)
(* of bodies, in both directions.                                            *)

Coord == -MaxCoord .. MaxCoord
EarthStarts == Coord \X Coord
VenusStarts == Coord \X {0, 1}
MarsStarts == {<<-1, 0>>, <<0, 2>>}
EarthVels == {-1, 0, 1} \X {0, 1}
ArgLists == {<< >>, <<"Earth">>, <<"Sun", "Earth">>, <<"Sun", "Venus", "Earth">>,
             <<"Venus", "Earth", "Mars">>, <<"Mars", "Venus">>}
ForcePairs == {<<"Earth", "Venus">>, <<"Sun", "Earth">>, <<"Mars", "Earth">>}

DriverIdle ==
    /\ planets = << >>
    /\ pc = "calls"
    /\ run = FALSE
    /\ count = 0
    /\ closest_count = << >>
    /\ closest_planet = None
    /\ ticks = 0
    /\ updates = 0
    /\ frames = 0
    /\ quit_tick = 0

\* The constructors: a Planet is built at the default position (0, 0), where
\* its distance_to_parent is taken, and then placed by set_position.
InitCalls ==
    /\ pos \in {[b \in Bodies |-> CASE b = "Sun" -> <<0, 0>>
                                    [] b = "Earth" -> e
                                    [] b = "Venus" -> v
                                    [] b = "Mars" -> m
                                    [] OTHER -> <<3, 3>>] :
                    e \in EarthStarts, v \in VenusStarts, m \in MarsStarts}
    /\ vel \in {[b \in Bodies |-> IF b = "Earth" THEN w ELSE <<0, 0>>] : w \in EarthVels}
    /\ orbit = [p \in Planets |-> << >>]
    /\ distance_to_parent = [p \in Planets |-> dist(<<0, 0>>, <<0, 0>>)]
    /\ error = "none"
    /\ arg \in ArgLists
    /\ calls = 0
    /\ ret = [op |-> "none"]
    /\ init0 = [pos |-> pos["Earth"], vel |-> vel["Earth"]]
    /\ DriverIdle

CallUpdatePosition ==
    /\ error = "none"
    /\ calls < MaxCalls
    /\ Install(Planet_update_position("Earth", arg, Cur))
    /\ calls' = calls + 1
    /\ ret' = [op |-> "none"]
    /\ UNCHANGED <<arg, init0>>
    /\ UNCHANGED driverVars

CallNeighbour ==
    /\ error = "none"
    /\ ret' = [op |-> "mostest_closest_neighbour",
               value |-> mostest_closest_neighbour("Earth", arg, Cur)]
    /\ UNCHANGED <<arg, calls, init0>>
    /\ UNCHANGED bodyVars
    /\ UNCHANGED driverVars

CallForce ==
    /\ error = "none"
    /\ \E pair \in ForcePairs :
           ret' = [op |-> "calculate_force_vectors", a |-> pair[1], b |-> pair[2],
                   ab |-> calculate_force_vectors(pair[1], pair[2], Cur),
                   ba |-> calculate_force_vectors(pair[2], pair[1], Cur)]
    /\ UNCHANGED <<arg, calls, init0>>
    /\ UNCHANGED bodyVars
    /\ UNCHANGED driverVars

NextCalls == CallUpdatePosition \/ CallNeighbour \/ CallForce

SpecCalls == InitCalls /\ [][NextCalls]_vars

----------------------------------------------------------------------------
(* Claims about the functions, checked under SpecCalls *)

Others(self, bodies) == {i \in 1 .. Len(bodies) : bodies[i] # self}

RECURSIVE SetSum(_, _)
SetSum(I, f) == IF I = {} THEN 0
                ELSE LET i == CHOOSE j \in I : TRUE IN f[i] + SetSum(I \ {i}, f)

\* C1: after every call of Planet.update_position the orbit trail holds at most
\* floor(distance_to_parent * SCALE) points.
C1_TrailBounded ==
    (calls >= 1 /\ error = "none") =>
        Len(orbit["Earth"]) <= IntOfScaled(distance_to_parent["Earth"], SCALE)

\* C3: mostest_closest_neighbour returns None exactly when the list holds no
\* body other than the reference, and otherwise the first body of the list,
\* other than the reference, at minimal distance from the reference.
C3_FirstNearest ==
    ret.op = "mostest_closest_neighbour" =>
        LET cands == Others("Earth", arg)
            d(i) == dist(pos["Earth"], pos[arg[i]]).sq
        IN  /\ (ret.value = None) <=> (cands = {})
            /\ cands # {} =>
                   \E i \in cands :
                       /\ arg[i] = ret.value
                       /\ \A j \in cands : d(i) <= d(j)
                       /\ \A j \in cands : j < i => d(j) > d(i)

\* C3's case: two candidates tie for the minimum and the first is returned.
C3_Witness ==
    /\ ret.op = "mostest_closest_neighbour"
    /\ ret.value # None
    /\ \E i, j \in Others("Earth", arg) :
           /\ i < j
           /\ arg[i] = ret.value
           /\ arg[j] # ret.value
           /\ dist(pos["Earth"], pos[arg[i]]) = dist(pos["Earth"], pos[arg[j]])

\* C4: a successful update_position is a semi-implicit Euler step: the new
\* velocity is v_old + (F / mass) * TIME_STEP, F the sum of the forces from the
\* other bodies of the list at the pre-step positions, and the new position
\* is x_old + v_new * TIME_STEP.
C4_SemiImplicitEuler ==
    [][(calls' = calls + 1 /\ error' = "none") =>
        LET I == Others("Earth", arg)
            Fx == SetSum(I, [i \in I |-> calculate_force_vectors("Earth", arg[i], Cur).x.v])
            Fy == SetSum(I, [i \in I |-> calculate_force_vectors("Earth", arg[i], Cur).y.v])
        IN  /\ vel'["Earth"][1] = vel["Earth"][1] + RoundDiv(Fx, mass("Earth")) * TIME_STEP
            /\ vel'["Earth"][2] = vel["Earth"][2] + RoundDiv(Fy, mass("Earth")) * TIME_STEP
            /\ pos'["Earth"][1] = pos["Earth"][1] + vel'["Earth"][1] * TIME_STEP
            /\ pos'["Earth"][2] = pos["Earth"][2] + vel'["Earth"][2] * TIME_STEP]_vars

\* C4's case: two steps under a net force that changed a nonzero velocity.
C4_Witness ==
    /\ calls >= 2
    /\ error = "none"
    /\ Others("Earth", arg) # {}
    /\ init0.vel # <<0, 0>>
    /\ vel["Earth"][1] # init0.vel[1]
    /\ vel["Earth"][2] # init0.vel[2]

\* C6: a body stepped with no other body in the list keeps its velocity, and
\* after n steps is at its initial position + n * velocity * TIME_STEP.
C6_IsolatedBody ==
    (calls >= 1 /\ Others("Earth", arg) = {}) =>
        /\ error = "none"
        /\ vel["Earth"] = init0.vel
        /\ pos["Earth"] = <<init0.pos[1] + calls * init0.vel[1] * TIME_STEP,
                            init0.pos[2] + calls * init0.vel[2] * TIME_STEP>>

\* C6's case: two steps of a moving body with only itself in the list.
C6_Witness ==
    /\ calls >= 2
    /\ arg = <<"Earth">>
    /\ init0.vel[1] # 0
    /\ init0.vel[2] # 0
    /\ pos["Earth"] # init0.pos

\* The grid part of force f on a from b has magnitude G ma mb / d^2 and points
\* from a to b, within the rounding of the grid: each component is within 1/2
\* of the exact one and the magnitude within 3/2 (it is 0 when G ma mb / d^2
\* is below 1/2).
ForceTowards(a, b, f) ==
    LET dx == pos[b][1] - pos[a][1]
        dy == pos[b][2] - pos[a][2]
        d2 == dx * dx + dy * dy
        N == G * mass(a) * mass(b)
        s == f.x.v * f.x.v + f.y.v * f.y.v
    IN  /\ Sign(f.x.v) \in {0, Sign(dx)}
        /\ Sign(f.y.v) \in {0, Sign(dy)}
        /\ 2 * Abs(f.x.v * dy - f.y.v * dx) <= Abs(dx) + Abs(dy)
        /\ IF d2 > 2 * N
           THEN s = 0
           ELSE /\ 4 * d2 * d2 * s <= (2 * N + 3 * d2) * (2 * N + 3 * d2)
                /\ 2 * N <= 3 * d2
                   \/ (2 * N - 3 * d2) * (2 * N - 3 * d2) <= 4 * d2 * d2 * s

\* C7 as claimed: the force on a from b has magnitude G ma mb / d^2, points from
\* a to b, and is the exact negation of the force on b from a.
C7_ExactNegation ==
    (ret.op = "calculate_force_vectors" /\ ret.ab.err = "none") =>
        /\ ForceTowards(ret.a, ret.b, ret.ab)
        /\ ForceTowards(ret.b, ret.a, ret.ba)
        /\ ret.ab.x.v = -ret.ba.x.v /\ ret.ab.x.e = -ret.ba.x.e
        /\ ret.ab.y.v = -ret.ba.y.v /\ ret.ab.y.e = -ret.ba.y.e

\* C7 amended: the force on a from b has magnitude G ma mb / d^2 and points from
\* a to b; it is the negation of the force on b from a up to the residual of
\* the trigonometric functions, at most 2 eps times the magnitude a component.
C7_NegationUpToResidual ==
    (ret.op = "calculate_force_vectors" /\ ret.ab.err = "none") =>
        LET d2 == dist(pos[ret.a], pos[ret.b]).sq
            N == G * mass(ret.a) * mass(ret.b)
        IN  /\ ForceTowards(ret.a, ret.b, ret.ab)
            /\ ForceTowards(ret.b, ret.a, ret.ba)
            /\ ret.ab.x.v = -ret.ba.x.v
            /\ ret.ab.y.v = -ret.ba.y.v
            /\ Abs(ret.ab.x.e + ret.ba.x.e) * d2 <= 2 * N + d2
            /\ Abs(ret.ab.y.e + ret.ba.y.e) * d2 <= 2 * N + d2

\* C7's case: a nonzero force between two bodies on one horizontal line, where
\* the y components are 0 one way and 2 eps times the magnitude the other way.
C7_Witness ==
    /\ ret.op = "calculate_force_vectors"
    /\ ret.ab.err = "none"
    /\ ret.ab.x.v # 0
    /\ ret.ab.x.v = -ret.ba.x.v
    /\ ret.ab.y.v = 0
    /\ ret.ab.y.e + ret.ba.y.e > 0

\* C9: a step of a body with a distinct body of the list at its own position
\* fails with ZeroDivisionError and leaves the stepped body as it was.
C9_CoincidentBodyFails ==
    [][(calls' = calls + 1 /\ \E i \in Others("Earth", arg) : pos[arg[i]] = pos["Earth"]) =>
        /\ error' = "ZeroDivisionError"
        /\ pos' = pos
        /\ vel' = vel
        /\ orbit' = orbit
        /\ distance_to_parent' = distance_to_parent]_vars

\* C9's case: the step failed on a body of the same mass, position and
\* velocity as the stepped one.
C9_Witness ==
    /\ error = "ZeroDivisionError"
    /\ calls >= 1
    /\ \E i \in Others("Earth", arg) :
           /\ mass(arg[i]) = mass("Earth")
           /\ pos[arg[i]] = pos["Earth"]
           /\ vel[arg[i]] = vel["Earth"]

----------------------------------------------------------------------------
(* Claims about run_simulation, checked under Spec (the shipped list of    *)
(* planets) and SpecScenario (the list as a parameter)                     *)

\* C2: the counters of closest_count, one for each of Mercury, Venus and Mars,
\* always sum to count, and every tally adds 1 to count and to exactly one
\* counter.
C2_TallySumsToCount ==
    /\ [](/\ DOMAIN closest_count = {"Mercury", "Venus", "Mars"}
          /\ SetSum(DOMAIN closest_count, closest_count) = count)
    /\ [][count' # count =>
            /\ count' = count + 1
            /\ \E p \in DOMAIN closest_count :
                   closest_count' = [closest_count EXCEPT ![p] = @ + 1]]_vars

\* C2's case: two ticks were tallied, for two different planets.
C2_Witness ==
    /\ count >= 2
    /\ \E p, q \in DOMAIN closest_count :
           p # q /\ closest_count[p] >= 1 /\ closest_count[q] >= 1

\* C5: the loop ends only at the loop test of the very tick that polled a
\* QUIT event, after that tick's update, tally and frame each ran once; once
\* stopped nothing runs; without a QUIT event the flag stays set.
C5_StopAtTickBoundary ==
    /\ [](/\ pc \in {"loop", "stopped"} =>
                 updates = ticks /\ count = ticks /\ frames = ticks
          /\ run <=> quit_tick = 0
          /\ quit_tick # 0 => quit_tick = ticks
          /\ pc = "stopped" => ~run)
    /\ [][/\ pc = "stopped" => UNCHANGED vars
          /\ (run /\ ~run') => (pc' = "update" /\ updates' = ticks - 1
                                  /\ count' = ticks - 1 /\ frames' = ticks - 1)]_vars

\* C5's case: the loop stopped on a QUIT event polled in its second tick.
C5_Witness ==
    /\ pc = "stopped"
    /\ quit_tick = 2
    /\ frames = 2

\* C8: update_positions steps the star from the pre-tick positions of the
\* planets, then each planet in list order from the new positions of the star
\* and of the planets before it and the pre-tick positions of those after it.
C8_GaussSeidelOrder ==
    [][(pc = "update" /\ pc' = "tally") =>
        LET bodies == <<"Sun">> \o planets
            starStep == CelestialObject_update_position("Sun", planets, Cur)
            Mixed(k) == [Cur EXCEPT !.pos =
                            [b \in Bodies |->
                                IF b = "Sun" \/ \E j \in 1 .. (k - 1) : planets[j] = b
                                THEN pos'[b] ELSE pos[b]]]
        IN  /\ pos'["Sun"] = starStep.pos["Sun"]
            /\ vel'["Sun"] = starStep.vel["Sun"]
            /\ \A k \in 1 .. Len(planets) :
                   LET R == CelestialObject_update_position(planets[k], bodies, Mixed(k))
                   IN  /\ pos'[planets[k]] = R.pos[planets[k]]
                       /\ vel'[planets[k]] = R.vel[planets[k]]]_vars

\* C8's case: an update in which the star moved, so that the planets were
\* stepped from a star position other than the pre-tick one.
C8_Witness ==
    /\ pc = "tally"
    /\ updates >= 2
    /\ vel["Sun"] # <<0, 0>>

====
